---- MODULE Spec2Model ----
(***************************************************************************)
(* Model of the poster metadata import pipeline of data-prep/              *)
(* import_posters.py (class PosterImporter and main) and of the update     *)
(* path of data-prep/extract_posters.py (class PosterMetadataManager).     *)
(*                                                                         *)
(* A poster (a Python dict) is a function from field names to values; its  *)
(* key set is its DOMAIN.  A JSON file is a record tagged with its kind.   *)
(* datetime.now() is a reading of a clock that never goes back and may     *)
(* advance between two readings.                                           *)
(***************************************************************************)
EXTENDS Integers, Sequences, FiniteSets, TLC

VARIABLES
    posters_json,       \* backend/posters.json        (structured store file)
    data_posters_json,  \* backend/data/posters.json   (flat store file)
    assets,             \* ids <id> whose client-godot/assets/posters/<id>.png exists
    clock,              \* last value read from datetime.now()
    pc,                 \* position of the running script
    args,               \* command line and environment of the current run
    new_posters,        \* candidate batch handed to update_backend
    data,               \* local variable `data` of update_backend
    warnings,           \* <<id, field>> of every logger.warning of merge_poster in this call
    written,            \* store files written since the current run or call started
    pre,                \* the two store files as they were when the run or call started
    exit_code,          \* exit status of the last finished run ("none" while running)
    runs,               \* finished runs or calls
    pdf_files,          \* process_pdfs: the sorted PDF files the loop has not reached yet
    fixed,              \* the sources and what extraction yields for them, when a run is repeated
    log,                \* process_pdfs: what was done for each source the loop has reached
    assets_dir,         \* whether the directory client-godot/assets/posters exists
    m_existing,         \* merge_poster: argument `existing`
    m_new,              \* merge_poster: argument `new`
    m_now,              \* merge_poster: the clock readings of lines 463 and 469
    m_result,           \* merge_poster: return value and emitted warnings
    m_pc,               \* merge_poster: "call" before, "return" after
    fcall               \* a call of a function on its own: name, arguments, result

vars == << posters_json, data_posters_json, assets, clock, pc, args, new_posters,
           data, warnings, written, pre, exit_code, runs, pdf_files, fixed,
           log, assets_dir, m_existing, m_new, m_now, m_result, m_pc, fcall >>

storeVars == << posters_json, data_posters_json, assets, clock, pc, args, new_posters,
                data, warnings, written, pre, exit_code, runs, pdf_files, fixed,
                log, assets_dir >>

mergeVars == << m_existing, m_new, m_now, m_result, m_pc, fcall >>

----------------------------------------------------------------------------
(* Bounds of the model *)

MaxClock == 2            \* clock readings are 0..MaxClock
MaxRuns == 2             \* import runs per behaviour
MaxCalls == 2            \* direct calls of update_backend per behaviour
MaxRepeats == 3          \* runs of the same import per behaviour
MaxFiles == 2            \* PDF files in the source directory
MaxStartId == 2          \* --start-id ranges over 1..MaxStartId
MaxBatch == 2            \* length of a batch passed directly to update_backend
MaxExistingCurated == 2  \* curated fields on the `existing` argument of merge_poster
MaxNewCurated == 1       \* curated fields on the `new` argument of merge_poster
MaxMissingContent == 1   \* content fields absent from the `new` argument of merge_poster
MaxStored == 2           \* records in a store file that main --validate reads
MaxLines == 11           \* lines of a text extract_title_from_text is called on

----------------------------------------------------------------------------
(* Fields *)

PRESERVE_FIELDS == {"faq", "booth_id", "room", "related_links", "keywords", "contact_email"}

REQUIRED_FIELDS == {"id", "title", "authors", "tags", "abstract", "poster_image"}

BASIC_FIELDS == {"title", "abstract", "authors", "tags", "poster_image"}

SOURCE_KEYS == {"source", "source_file"}

OVERRIDE_FIELDS == {"title", "authors", "tags", "abstract"}

\* fields whose JSON value is an array
ListFields == {"authors", "tags", "faq", "related_links", "keywords"}

\* a value of field f carrying the token s, of the JSON type the field has
Val(f, s) == IF f \in ListFields THEN << s >> ELSE s

\* the dict with no key
EmptyDict == [k \in {} |-> ""]

\* d[k] = v on a dict
Put(d, k, v) == [x \in DOMAIN d \cup {k} |-> IF x = k THEN v ELSE d[x]]

\* dict.update restricted to the keys of `keys` that `src` has
PutAll(d, src, keys) ==
    [x \in DOMAIN d \cup (keys \cap DOMAIN src) |->
        IF x \in keys /\ x \in DOMAIN src THEN src[x] ELSE d[x]]

Range(s) == {s[i] : i \in 1..Len(s)}

----------------------------------------------------------------------------
(* PosterImporter.merge_poster *)

MergeBasicAndId(merged, new) == PutAll(merged, new, BASIC_FIELDS \cup {"id"})

\* lines 447-449: basic fields are taken from `new` when it has them
MergeBasic(merged, new) == PutAll(merged, new, BASIC_FIELDS)

\* lines 452-457: a curated field of `new` replaces the one of `existing`;
\* the first branch re-assigns the value merged already has from the copy
MergeCuratedDropping(merged, existing, new) ==
    [x \in (DOMAIN merged \ PRESERVE_FIELDS) \cup (PRESERVE_FIELDS \cap DOMAIN new) |->
        IF x \in PRESERVE_FIELDS THEN new[x] ELSE merged[x]]

MergeCurated(merged, existing, new) ==
    [x \in DOMAIN merged \cup (PRESERVE_FIELDS \cap DOMAIN new) |->
        IF x \in PRESERVE_FIELDS /\ x \in DOMAIN existing /\ x \notin DOMAIN new
        THEN existing[x]
        ELSE IF x \in PRESERVE_FIELDS /\ x \in DOMAIN new THEN new[x] ELSE merged[x]]

\* line 456: one warning per curated field that `new` has
NoCuratedWarnings(existing, new) == {}

CuratedWarnings(existing, new) == PRESERVE_FIELDS \cap DOMAIN new

HasCreatedAt(p) == "metadata" \in DOMAIN p /\ "created_at" \in DOMAIN p["metadata"]

\* lines 466-469: created_at of `existing` is kept; without one, the clock is read again
CreatedAtFromNew(existing, new, now2) ==
    IF "metadata" \in DOMAIN new /\ "created_at" \in DOMAIN new["metadata"]
    THEN new["metadata"]["created_at"] ELSE now2

CreatedAt(existing, new, now2) ==
    IF HasCreatedAt(existing) THEN existing["metadata"]["created_at"] ELSE now2

\* lines 459-474: the metadata block of the merged poster
MergeMetadataStale(merged, existing, new, now1, now2) ==
    LET m0 == IF "metadata" \in DOMAIN merged THEN merged["metadata"] ELSE EmptyDict
        m2 == Put(m0, "created_at", CreatedAt(existing, new, now2))
    IN  IF "metadata" \in DOMAIN new THEN PutAll(m2, new["metadata"], SOURCE_KEYS) ELSE m2

MergeMetadata(merged, existing, new, now1, now2) ==
    LET m0 == IF "metadata" \in DOMAIN merged THEN merged["metadata"] ELSE EmptyDict
        m1 == Put(m0, "updated_at", now1)
        m2 == Put(m1, "created_at", CreatedAt(existing, new, now2))
    IN  IF "metadata" \in DOMAIN new THEN PutAll(m2, new["metadata"], SOURCE_KEYS) ELSE m2

\* lines 440-477; now1 is the clock reading of line 463, now2 the one of line 469
merge_poster(existing, new, now1, now2) ==
    LET a == MergeBasic(existing, new)
        b == MergeCurated(a, existing, new)
    IN  [ merged   |-> Put(b, "metadata", MergeMetadata(b, existing, new, now1, now2)),
          warnings |-> CuratedWarnings(existing, new) ]

----------------------------------------------------------------------------
(* Arguments of merge_poster: every presence pattern of the fields within  *)
(* the bounds.  Values of `existing` carry the token "old"; values of      *)
(* `new` carry "new", or "old" when the candidate repeats the stored value *)

\* metadata blocks a stored record can have: none (a record of a flat-array file
\* or a hand-written one), an empty one, or one written by an earlier import,
\* whose stamps were read from the clock, created_at first
ExistingMetadata ==
    {EmptyDict}
    \cup {[source |-> "pdf_import", source_file |-> "old.pdf", created_at |-> c, updated_at |-> u] :
            c \in {0, 1}, u \in {1}}
    \cup {[source |-> "csv_import", updated_at |-> u] : u \in {1}}

BuildPoster(id, basic, curated, tok) ==
    [x \in {"id"} \cup basic \cup curated |-> IF x = "id" THEN id ELSE Val(x, tok)]

ExistingArgs ==
    LET bare == {BuildPoster("poster_001", BASIC_FIELDS, c, "old") :
                    c \in {s \in SUBSET PRESERVE_FIELDS : Cardinality(s) <= MaxExistingCurated}}
    IN  bare \cup {Put(p, "metadata", m) : p \in bare, m \in ExistingMetadata}

NewMetadata ==
    {[source |-> "pdf_import", source_file |-> "new.pdf", created_at |-> 1, updated_at |-> 1],
     [source |-> "json_import"]}

\* update_backend passes a candidate of the id of `existing`; a direct caller
\* may pass one of another id
NewIds == {"poster_001", "poster_009"}

NewArgs ==
    LET bare == {BuildPoster(id, b, c, tok) :
                    id \in NewIds,
                    b \in {s \in SUBSET BASIC_FIELDS :
                              Cardinality(BASIC_FIELDS \ s) <= MaxMissingContent},
                    c \in {s \in SUBSET PRESERVE_FIELDS : Cardinality(s) <= MaxNewCurated},
                    tok \in {"new", "old"}}
    IN  bare \cup {Put(p, "metadata", m) : p \in bare, m \in NewMetadata}

\* the two clock readings of one call: taken after every stamp already stored,
\* the second not before the first
NowPairs == {t \in (1..MaxClock) \X (1..MaxClock) : t[1] <= t[2]}

NoResult == [merged |-> EmptyDict, warnings |-> {}]

NoCall == [fn |-> "none", pc |-> "idle"]

MergeIdle ==
    /\ m_existing = EmptyDict
    /\ m_new = EmptyDict
    /\ m_now = << 0, 0 >>
    /\ m_result = NoResult
    /\ m_pc = "idle"
    /\ fcall = NoCall

InitMergeArgs ==
    /\ m_existing \in ExistingArgs
    /\ m_new \in NewArgs
    /\ m_now \in NowPairs
    /\ m_result = NoResult
    /\ m_pc = "call"
    /\ fcall = NoCall

CallMergePoster ==
    /\ m_pc = "call"
    /\ m_result' = merge_poster(m_existing, m_new, m_now[1], m_now[2])
    /\ m_pc' = "return"
    /\ UNCHANGED << m_existing, m_new, m_now, fcall >>

----------------------------------------------------------------------------
(* Store files *)

Absent == [kind |-> "absent"]

\* a file that json.load rejects
Corrupt == [kind |-> "corrupt"]

\* {"schema_version": ..., "last_updated": ..., "posters": [...]}
Structured(last_updated, posters) ==
    [kind |-> "dict", schema_version |-> "1.0", last_updated |-> last_updated, posters |-> posters]

\* a bare JSON array of posters
Flat(posters) == [kind |-> "list", posters |-> posters]

\* lines 412-438, for a file json.load accepts; a missing file gives the empty store
\* and a bare array is wrapped
load_existing_backend(file, now) ==
    IF file.kind = "dict" THEN file ELSE
    IF file.kind = "list" THEN Structured(now, file.posters) ELSE Structured(now, << >>)

\* line 524-525: json.dump(data) writes the dict as it is
StructuredFileOfStale(d) == [d EXCEPT !.posters = SubSeq(d.posters, 1, 1)]

StructuredFileOf(d) == d

\* line 530-531: json.dump(data['posters'])
FlatFileOfBatchOnly(d) == Flat(SelectSeq(d.posters, LAMBDA p : HasCreatedAt(p)))

FlatFileOf(d) == Flat(d.posters)

\* the posters a reader of the file sees
PostersOf(file) == IF file.kind \in {"dict", "list"} THEN file.posters ELSE << >>

Ids(posters) == {posters[i]["id"] : i \in 1..Len(posters)}

UniqueIds(posters) ==
    \A i, j \in 1..Len(posters) : posters[i]["id"] = posters[j]["id"] => i = j

----------------------------------------------------------------------------
(* PosterImporter.update_backend, lines 499-517 *)

\* line 500: {p['id']: p for p in data['posters']}; a later poster replaces an
\* earlier one of the same id, and the key keeps the position of the earlier one.
\* The map is kept as the sequence of its values in key order.
RECURSIVE existing_map(_)
existing_map(posters) ==
    IF posters = << >> THEN << >>
    ELSE LET n    == Len(posters)
             last == posters[n]
             init == existing_map(SubSeq(posters, 1, n - 1))
         IN  IF \E i \in 1..Len(init) : init[i]["id"] = last["id"]
             THEN [i \in 1..Len(init) |-> IF init[i]["id"] = last["id"] THEN last ELSE init[i]]
             ELSE Append(init, last)

InMap(map, id) == \E i \in 1..Len(map) : map[i]["id"] = id

Lookup(map, id) == map[CHOOSE i \in 1..Len(map) : map[i]["id"] = id]

\* line 508: del existing_map[poster_id]
DelNothing(map, id) == map

Del(map, id) == SelectSeq(map, LAMBDA p : p["id"] # id)

\* lines 503-511: the loop over the batch.  st is the triple of existing_map,
\* updated_posters and the warnings logged; reads[i] is the pair of clock
\* readings merge_poster takes for the i-th candidate.
RECURSIVE MergeLoop(_, _, _, _)
MergeLoop(batch, i, reads, st) ==
    IF i > Len(batch) THEN st
    ELSE LET new == batch[i]
             id  == new["id"]
         IN  IF InMap(st.map, id)
             THEN LET r == merge_poster(Lookup(st.map, id), new, reads[i][1], reads[i][2])
                  IN  MergeLoop(batch, i + 1, reads,
                                [map      |-> Del(st.map, id),
                                 updated  |-> Append(st.updated, r.merged),
                                 warnings |-> st.warnings \cup {<< id, f >> : f \in r.warnings}])
             ELSE MergeLoop(batch, i + 1, reads,
                            [map      |-> st.map,
                             updated  |-> Append(st.updated, new),
                             warnings |-> st.warnings])

\* lines 499-517: the posters written, and the warnings logged on the way
MergedPosters(existing, batch, merge, reads) ==
    IF merge
    THEN LET st == MergeLoop(batch, 1, reads,
                             [map |-> existing_map(existing), updated |-> << >>, warnings |-> {}])
         IN  [posters |-> st.updated \o st.map, warnings |-> st.warnings]
    ELSE [posters |-> batch, warnings |-> {}]

----------------------------------------------------------------------------
(* PosterImporter.validate_poster and validate_backend *)

\* lines 479-485
validate_poster(poster) == REQUIRED_FIELDS \subseteq DOMAIN poster

\* lines 558-563: the asset of a poster that has a non-empty id exists
AssetOk(poster, pngs) ==
    ("id" \in DOMAIN poster /\ poster["id"] # "") => poster["id"] \in pngs

\* lines 544-570 for one file
ValidFile(file, pngs) ==
    /\ file.kind \in {"dict", "list"}
    /\ \A i \in 1..Len(file.posters) :
          validate_poster(file.posters[i]) /\ AssetOk(file.posters[i], pngs)

\* lines 536-572
validate_backend(structured, flat, pngs) == ValidFile(structured, pngs) /\ ValidFile(flat, pngs)

----------------------------------------------------------------------------
(* Sources, extraction and overrides *)

\* the PDF files a source directory can hold; file f is named p<f>.pdf, so the
\* lexicographic order of the names is the order of the numbers
Files == 1..MaxFiles

Stem(f) == "p" \o ToString(f)

FileName(f) == Stem(f) \o ".pdf"

\* line 339: sorted(pdf_dir.glob("*.pdf"))
RECURSIVE Sorted(_)
Sorted(dir) ==
    IF dir = {} THEN << >>
    ELSE LET least == CHOOSE f \in dir : \A g \in dir : f <= g
         IN  << least >> \o Sorted(dir \ {least})

PosterIdUnpadded(idx) == "poster_" \o ToString(idx)

\* line 353: f"poster_{idx:03d}"
PosterId(idx) ==
    "poster_" \o (IF idx < 0 THEN "-" \o (IF -idx < 10 THEN "0" ELSE "") \o ToString(-idx)
                  ELSE (IF idx < 10 THEN "00" ELSE IF idx < 100 THEN "0" ELSE "") \o ToString(idx))

\* lines 197-269 on the text extract_text_from_pdf returns for file f: the fields
\* the heuristics find in a text that has lines, and the defaults of lines 173,
\* 213, 235 and 262 for the empty text
parse_poster_content(f, has_text, poster_id) ==
    IF has_text
    THEN [title    |-> "Title of " \o Stem(f),
          authors  |-> << "Author of " \o Stem(f) >>,
          abstract |-> "Abstract of " \o Stem(f),
          tags     |-> << "iot" >>]
    ELSE [title    |-> "Research Poster " \o poster_id,
          authors  |-> << "Unknown Author" >>,
          abstract |-> "Research poster content extracted from PDF.",
          tags     |-> << "research", "computer-science" >>]

\* lines 107-155: the JSON object the vision model answers for the PNG of file f;
\* the model may add keys that were not asked for
VisionContent(f) ==
    [title    |-> "Vision title of " \o Stem(f),
     authors  |-> << "Vision author" >>,
     abstract |-> "Vision abstract",
     tags     |-> << "vision-tag" >>,
     booth_id |-> "B-vision"]

\* what can happen to one source.  "png_fail": the PNG conversion fails.
\* "text", "no_text", "text_raises": the vision call, when made, returns None
\* (status not 200, body not JSON, timeout, exception), and the PDF has text
\* with lines, has no text, or makes the PDF reader raise.  "vision": the model
\* answers the object asked for.  "vision_partial": it answers an object
\* without authors, tags and abstract.  "vision_empty": it answers {}.
\* "vision_scalar": it answers JSON that is not an object and is not falsy.
Outcomes(use_vision) ==
    {"png_fail", "text", "no_text", "text_raises"} \cup
    (IF use_vision THEN {"vision", "vision_partial", "vision_empty", "vision_scalar"} ELSE {})

\* lines 271-296
pdf_to_png(outcome) == outcome # "png_fail"

\* values extract_metadata_with_vision returns: None, a JSON object, other JSON
NoAnswer == [kind |-> "none"]

ObjectAnswer(d) == [kind |-> "object", value |-> d]

OtherAnswer == [kind |-> "other"]

\* lines 107-155
extract_metadata_with_vision(outcome, f) ==
    CASE outcome = "vision"         -> ObjectAnswer(VisionContent(f))
      [] outcome = "vision_partial" -> ObjectAnswer([title |-> "Vision title of " \o Stem(f)])
      [] outcome = "vision_empty"   -> ObjectAnswer(EmptyDict)
      [] outcome = "vision_scalar"  -> OtherAnswer
      [] OTHER                      -> NoAnswer

\* the truth value Python gives an answer in "if content" and "if not content"
Truthy(answer) ==
    \/ answer.kind = "other"
    \/ answer.kind = "object" /\ DOMAIN answer.value # {}

FallbackNever(answer) == FALSE

\* line 379: if not content
Fallback(answer) == ~Truthy(answer)

\* lines 157-168: the text of the PDF, "" when reading it raises
extract_text_from_pdf(outcome) ==
    IF outcome \in {"no_text", "text_raises"} THEN "" ELSE "lines"

\* how the log names the answer of the vision call
VisionStatus(use_vision, answer) ==
    IF ~use_vision THEN "not_called"
    ELSE CASE answer.kind = "none"  -> "failed"
           [] answer.kind = "other" -> "other"
           [] OTHER -> IF DOMAIN answer.value = {} THEN "empty"
                       ELSE IF OVERRIDE_FIELDS \subseteq DOMAIN answer.value THEN "ok"
                       ELSE "partial"

\* how the log names what extract_text_from_pdf did
TextStatus(outcome) ==
    CASE outcome = "text_raises" -> "raised"
      [] outcome = "no_text"     -> "empty"
      [] OTHER                   -> "lines"

\* contents of poster_overrides.yaml: a mapping from stems to a title string or
\* to a mapping of fields
StrOverride(s) == [kind |-> "str", value |-> s]

DictOverride(d) == [kind |-> "dict", fields |-> d]

\* a YAML value that is neither a string nor a mapping: a list, a number
OtherOverride == [kind |-> "other"]

OverrideFiles ==
    { EmptyDict,
      [s \in {Stem(1)} |-> StrOverride("Override title")],
      [s \in {Stem(1)} |-> DictOverride([abstract |-> "Override abstract",
                                         faq |-> << "Override faq" >>])] }

apply_overrides_any_key(content, pdf_basename, overrides) ==
    IF pdf_basename \notin DOMAIN overrides THEN content
    ELSE LET override == overrides[pdf_basename]
         IN  IF override.kind = "str" THEN Put(content, "title", override.value)
             ELSE IF override.kind = "dict"
                  THEN PutAll(content, override.fields, DOMAIN override.fields)
             ELSE content

\* lines 312-328
apply_overrides(content, pdf_basename, overrides) ==
    IF pdf_basename \notin DOMAIN overrides THEN content
    ELSE LET override == overrides[pdf_basename]
         IN  IF override.kind = "str" THEN Put(content, "title", override.value)
             ELSE IF override.kind = "dict" THEN PutAll(content, override.fields, OVERRIDE_FIELDS)
             ELSE content

\* lines 355-392 for one source: what the iteration does up to the point where
\* the candidate is built.  fault: an exception leaves the loop, from
\* content.get on an answer that is no object (line 375) or from content[field]
\* on content that lacks the field (lines 389-392).
ExtractOne(outcome, f, poster_id, use_vision, overrides) ==
    LET success  == pdf_to_png(outcome)
        answer   == IF use_vision /\ success THEN extract_metadata_with_vision(outcome, f)
                    ELSE NoAnswer
        fallback == Fallback(answer)
        text     == extract_text_from_pdf(outcome)
        content  == IF fallback THEN parse_poster_content(f, text # "", poster_id)
                    ELSE IF answer.kind = "object" THEN answer.value
                    ELSE EmptyDict
        final    == apply_overrides(content, Stem(f), overrides)
        fault    == \/ Truthy(answer) /\ answer.kind # "object"
                    \/ ~(OVERRIDE_FIELDS \subseteq DOMAIN final)
    IN  IF ~success
        THEN [png |-> FALSE, vision |-> "not_called", text |-> "not_called", by |-> "none",
              fault |-> FALSE, candidate |-> FALSE, content |-> EmptyDict]
        ELSE [png       |-> TRUE,
              vision    |-> VisionStatus(use_vision, answer),
              text      |-> IF fallback THEN TextStatus(outcome) ELSE "not_called",
              by        |-> IF fallback THEN "text" ELSE "vision",
              fault     |-> fault,
              candidate |-> ~fault,
              content   |-> final]

\* what the log keeps of one iteration
LogEntry(f, poster_id, x) ==
    [file |-> f, id |-> poster_id, png |-> x.png, vision |-> x.vision, text |-> x.text,
     by |-> x.by, fault |-> x.fault, candidate |-> x.candidate]

\* lines 387-400; created_at is read from the clock before updated_at
NewStamps(t1, t2) == [created_at |-> t1, updated_at |-> t2]

NewPosterWithContentKeys(poster_id, content, file_name, t1, t2) ==
    [x \in DOMAIN content \cup {"id", "poster_image", "metadata"} |->
        CASE x = "id"           -> poster_id
          [] x = "poster_image" -> "res://assets/posters/" \o poster_id \o ".png"
          [] x = "metadata"     -> [source      |-> "pdf_import",
                                    source_file |-> file_name,
                                    created_at  |-> t1,
                                    updated_at  |-> t2]
          [] OTHER              -> content[x]]

NewPoster(poster_id, content, file_name, t1, t2) ==
    [id           |-> poster_id,
     title        |-> content["title"],
     authors      |-> content["authors"],
     tags         |-> content["tags"],
     abstract     |-> content["abstract"],
     poster_image |-> "res://assets/posters/" \o poster_id \o ".png",
     metadata     |-> [source      |-> "pdf_import",
                       source_file |-> file_name,
                       created_at  |-> NewStamps(t1, t2).created_at,
                       updated_at  |-> NewStamps(t1, t2).updated_at]]

----------------------------------------------------------------------------
(* The clock *)

\* n successive readings of datetime.now() starting from reading c: the clock
\* does not go back, and advances at most once in between
Readings(c, n) ==
    {[i \in 1..n |-> c] } \cup
    (IF c < MaxClock THEN {[i \in 1..n |-> IF i < j THEN c ELSE c + 1] : j \in 1..n} ELSE {})

\* the pairs of readings merge_poster takes for the candidates of a batch, out
\* of the readings r[2], .., r[2 * Len(batch) + 1]
MergeReads(r, n) == [i \in 1..n |-> << r[2 * i], r[2 * i + 1] >>]

----------------------------------------------------------------------------
(* Initial stores: states the two files and the asset directory can be in   *)
(* before a run, every stamp in them read from the clock earlier            *)

StoredCurated ==
    [id |-> "poster_001", title |-> "old", abstract |-> "old", authors |-> << "old" >>,
     tags |-> << "old" >>, poster_image |-> "res://assets/posters/poster_001.png",
     booth_id |-> "B3", faq |-> << "Q1" >>,
     metadata |-> [source |-> "pdf_import", source_file |-> "old.pdf",
                   created_at |-> 0, updated_at |-> 1]]

\* a record as a flat-array file holds it after hand editing: no metadata block
StoredBare ==
    [id |-> "poster_002", title |-> "old", abstract |-> "old", authors |-> << "old" >>,
     tags |-> << "old" >>, poster_image |-> "res://assets/posters/poster_002.png",
     room |-> "R1"]

\* a record that lacks a required field
StoredNoAbstract ==
    [id |-> "poster_003", title |-> "old", authors |-> << "old" >>,
     tags |-> << "old" >>, poster_image |-> "res://assets/posters/poster_003.png",
     metadata |-> [source |-> "csv_import", updated_at |-> 1]]

InitStores ==
    { [structured |-> Absent, flat |-> Absent, pngs |-> {}],
      [structured |-> Structured(1, << StoredCurated, StoredBare >>),
       flat |-> Flat(<< StoredCurated, StoredBare >>),
       pngs |-> {"poster_001", "poster_002"}],
      [structured |-> Flat(<< StoredBare >>), flat |-> Absent, pngs |-> {}],
      [structured |-> Structured(1, << StoredCurated >>),
       flat |-> Flat(<< StoredNoAbstract >>),
       pngs |-> {"poster_001"}],
      [structured |-> Structured(1, << StoredNoAbstract, StoredCurated >>),
       flat |-> Flat(<< StoredNoAbstract, StoredCurated >>),
       pngs |-> {"poster_001", "poster_003"}],
      [structured |-> Corrupt, flat |-> Flat(<< StoredCurated >>), pngs |-> {"poster_001"}] }

NoArgs == [caller |-> "none", dir |-> {}, start_id |-> 1, merge |-> TRUE,
           use_vision |-> FALSE, overrides |-> EmptyDict,
           dir_exists |-> TRUE, ollama_up |-> TRUE]

NoData == Structured(0, << >>)

NotFixed == [args |-> NoArgs, outcome |-> [f \in Files |-> "text"]]

InitStore(stores) ==
    /\ \E s \in stores :
          /\ posters_json = s.structured
          /\ data_posters_json = s.flat
          /\ assets = s.pngs
          /\ pre = [structured |-> s.structured, flat |-> s.flat]
    /\ clock = 1
    /\ pc = "idle"
    /\ args = NoArgs
    /\ new_posters = << >>
    /\ data = NoData
    /\ warnings = {}
    /\ written = {}
    /\ exit_code = -1
    /\ runs = 0
    /\ pdf_files = << >>
    /\ log = << >>
    /\ assets_dir = (assets # {})

----------------------------------------------------------------------------
(* main, lines 645-706, and the steps of process_pdfs and update_backend    *)

\* command lines of import runs that use text extraction without an override file
ImportArgs ==
    [caller : {"main"}, dir : SUBSET Files, start_id : 1..MaxStartId, merge : BOOLEAN,
     use_vision : {FALSE}, overrides : {EmptyDict}]

ConfigOkNoProbe(use_vision, dir_exists, ollama_up) == dir_exists

\* lines 649-666: the source directory exists, and the vision service answers
\* the probe when --use-vision is given
ConfigOk(use_vision, dir_exists, ollama_up) ==
    dir_exists /\ (use_vision => ollama_up)

\* lines 645-671 and 339-350: the configuration checks, then the start of
\* process_pdfs.  dir_exists and ollama_up are what the checks find.
Main(a, dir_exists, ollama_up) ==
    /\ pc \in {"idle", "exit"}
    /\ args' = [caller |-> a.caller, dir |-> a.dir, start_id |-> a.start_id, merge |-> a.merge,
                use_vision |-> a.use_vision, overrides |-> a.overrides,
                dir_exists |-> dir_exists, ollama_up |-> ollama_up]
    /\ log' = << >>
    /\ pre' = [structured |-> posters_json, flat |-> data_posters_json]
    /\ written' = {}
    /\ warnings' = {}
    /\ new_posters' = << >>
    /\ IF ~ConfigOk(a.use_vision, dir_exists, ollama_up)
       THEN /\ pc' = "exit"
            /\ exit_code' = 1
            /\ runs' = runs + 1
            /\ pdf_files' = << >>
            /\ assets_dir' = assets_dir
       ELSE /\ pc' = "process"
            /\ exit_code' = -1
            /\ runs' = runs
            /\ pdf_files' = Sorted(a.dir)
            /\ assets_dir' = TRUE
    /\ UNCHANGED << posters_json, data_posters_json, assets, clock, data, fixed >>

\* lines 352-406: one iteration of the loop of process_pdfs.  An exception in
\* the iteration is caught nowhere: it ends the run with a traceback.
ProcessPdf(outcome) ==
    /\ pc = "process"
    /\ pdf_files # << >>
    /\ outcome \in Outcomes(args.use_vision)
    /\ LET pdf_path  == Head(pdf_files)
           idx       == args.start_id + (Cardinality(args.dir) - Len(pdf_files))
           poster_id == PosterId(idx)
           x         == ExtractOne(outcome, pdf_path, poster_id, args.use_vision, args.overrides)
       IN  /\ log' = Append(log, LogEntry(pdf_path, poster_id, x))
           /\ assets' = IF x.png THEN assets \cup {poster_id} ELSE assets
           /\ IF x.candidate
              THEN \E r \in Readings(clock, 2) :
                      /\ new_posters' = Append(new_posters,
                             NewPoster(poster_id, x.content, FileName(pdf_path), r[1], r[2]))
                      /\ clock' = r[2]
              ELSE UNCHANGED << clock, new_posters >>
           /\ IF x.fault
              THEN /\ pc' = "exit"
                   /\ exit_code' = 1
                   /\ runs' = runs + 1
                   /\ pdf_files' = pdf_files
              ELSE /\ pdf_files' = Tail(pdf_files)
                   /\ UNCHANGED << pc, exit_code, runs >>
    /\ UNCHANGED << posters_json, data_posters_json, args, data, warnings, written,
                    pre, fixed, assets_dir >>

NoPostersIgnored(posters) == FALSE

\* line 681: "if not new_posters"
NoPosters(posters) == posters = << >>

\* lines 408-410 and 681-683: process_pdfs returns; main stops without a batch
ProcessPdfsReturn ==
    /\ pc = "process"
    /\ pdf_files = << >>
    /\ IF NoPosters(new_posters)
       THEN /\ pc' = "exit"
            /\ exit_code' = 1
            /\ runs' = runs + 1
       ELSE /\ pc' = "update"
            /\ UNCHANGED << exit_code, runs >>
    /\ UNCHANGED << posters_json, data_posters_json, assets, clock, args, new_posters, data,
                    warnings, written, pre, pdf_files, fixed, log, assets_dir >>

ExistingPathFlat(structured, flat) == flat

\* line 497: the file update_backend loads the existing store from
ExistingPath(structured, flat) == structured

JSONDecodeErrorCaught(file) == FALSE

\* lines 423-438: json.load rejects the file and the exception is raised again
JSONDecodeError(file) == file.kind = "corrupt"

\* lines 496-526: load, merge or replace, stamp, write the structured file.
\* A file json.load rejects makes load_existing_backend raise: nothing is
\* written and the exception ends the run (or reaches the direct caller).
UpdateBackendStructured ==
    /\ pc = "update"
    /\ IF JSONDecodeError(ExistingPath(posters_json, data_posters_json))
       THEN /\ pc' = IF args.caller = "main" THEN "exit" ELSE "raised"
            /\ exit_code' = 1
            /\ runs' = runs + 1
            /\ UNCHANGED << posters_json, clock, data, warnings, written >>
       ELSE \E r \in Readings(clock, 2 * Len(new_posters) + 2) :
               LET n      == Len(r)
                   loaded == load_existing_backend(
                                 ExistingPath(posters_json, data_posters_json), r[1])
                   res    == MergedPosters(loaded.posters, new_posters, args.merge,
                                           MergeReads(r, Len(new_posters)))
                   d      == [loaded EXCEPT !.posters = res.posters, !.last_updated = r[n]]
               IN  /\ data' = d
                   /\ posters_json' = StructuredFileOf(d)
                   /\ warnings' = res.warnings
                   /\ written' = written \cup {"posters_json"}
                   /\ clock' = r[n]
                   /\ pc' = "flat"
                   /\ UNCHANGED << exit_code, runs >>
    /\ UNCHANGED << data_posters_json, assets, args, new_posters, pre, pdf_files, fixed,
                    log, assets_dir >>

\* lines 528-534: write the flat file; update_backend returns
UpdateBackendFlat ==
    /\ pc = "flat"
    /\ data_posters_json' = FlatFileOf(data)
    /\ written' = written \cup {"data_posters_json"}
    /\ IF args.caller = "main"
       THEN pc' = "validate" /\ runs' = runs
       ELSE pc' = "returned" /\ runs' = runs + 1
    /\ UNCHANGED << posters_json, assets, clock, args, new_posters, data, warnings, pre,
                    exit_code, pdf_files, fixed, log, assets_dir >>

\* lines 689-706: validate what was written and exit
ValidateAndExit ==
    /\ pc = "validate"
    /\ exit_code' = IF validate_backend(posters_json, data_posters_json, assets) THEN 0 ELSE 1
    /\ pc' = "exit"
    /\ runs' = runs + 1
    /\ UNCHANGED << posters_json, data_posters_json, assets, clock, args, new_posters, data,
                    warnings, written, pre, pdf_files, fixed, log, assets_dir >>

\* lines 640-643: main --validate
ValidateOnly ==
    /\ pc \in {"idle", "exit"}
    /\ args' = [NoArgs EXCEPT !.caller = "validate"]
    /\ exit_code' = IF validate_backend(posters_json, data_posters_json, assets) THEN 0 ELSE 1
    /\ pc' = "exit"
    /\ pre' = [structured |-> posters_json, flat |-> data_posters_json]
    /\ written' = {}
    /\ warnings' = {}
    /\ new_posters' = << >>
    /\ log' = << >>
    /\ UNCHANGED << posters_json, data_posters_json, assets, clock, data, runs, pdf_files,
                    fixed, assets_dir >>

\* the process is killed between the write of lines 524-525 and the write of
\* lines 530-531: the run ends, non-zero, with the structured file written
Crash ==
    /\ pc = "flat"
    /\ args.caller = "main"
    /\ pc' = "exit"
    /\ exit_code' = 1
    /\ runs' = runs + 1
    /\ UNCHANGED << posters_json, data_posters_json, assets, clock, args, new_posters, data,
                    warnings, written, pre, pdf_files, fixed, log, assets_dir >>

\* the steps a started run or call takes
Steps(outcomes) ==
    \/ \E outcome \in outcomes : ProcessPdf(outcome)
    \/ ProcessPdfsReturn
    \/ UpdateBackendStructured
    \/ UpdateBackendFlat
    \/ ValidateAndExit

----------------------------------------------------------------------------
(* Import runs, one after the other, on any source directory *)

Init == InitStore(InitStores) /\ fixed = NotFixed /\ MergeIdle

StartRun ==
    /\ runs < MaxRuns
    /\ \E a \in ImportArgs, dir_exists \in BOOLEAN : Main(a, dir_exists, TRUE)

Next ==
    \/ StartRun /\ UNCHANGED mergeVars
    \/ Steps({"png_fail", "text"}) /\ UNCHANGED mergeVars

Spec == Init /\ [][Next]_vars

----------------------------------------------------------------------------
(* The same import, run again and again on an empty store: the directory,   *)
(* the command line and what extraction yields for each source are fixed    *)

InitRepeat ==
    /\ InitStore({[structured |-> Absent, flat |-> Absent, pngs |-> {}]})
    /\ fixed \in [args : {a \in ImportArgs : a.merge}, outcome : [Files -> {"png_fail", "text", "no_text"}]]
    /\ MergeIdle

StartRepeat ==
    /\ runs < MaxRepeats
    /\ Main(fixed.args, TRUE, TRUE)

StepRepeat ==
    \/ pdf_files # << >> /\ ProcessPdf(fixed.outcome[Head(pdf_files)])
    \/ ProcessPdfsReturn
    \/ UpdateBackendStructured
    \/ UpdateBackendFlat
    \/ ValidateAndExit

NextRepeat ==
    \/ StartRepeat /\ UNCHANGED mergeVars
    \/ StepRepeat /\ UNCHANGED mergeVars

SpecRepeat == InitRepeat /\ [][NextRepeat]_vars

----------------------------------------------------------------------------
(* update_backend called directly with any batch *)

\* candidates a caller can pass: two of them share an id, one supplies a curated field
Candidate(id, tok, curated) ==
    Put(BuildPoster(id, BASIC_FIELDS, curated, tok), "metadata",
        [source |-> "json_import", created_at |-> 1, updated_at |-> 1])

Candidates ==
    { Candidate("poster_001", "new", {}),
      Candidate("poster_001", "newer", {"booth_id"}),
      Candidate("poster_002", "new", {}) }

Batches == UNION {[1..n -> Candidates] : n \in 0..MaxBatch}

CallUpdateBackend(batch, merge) ==
    /\ pc \in {"idle", "returned", "raised"}
    /\ runs < MaxCalls
    /\ args' = [NoArgs EXCEPT !.caller = "api", !.merge = merge]
    /\ new_posters' = batch
    /\ pre' = [structured |-> posters_json, flat |-> data_posters_json]
    /\ written' = {}
    /\ warnings' = {}
    /\ exit_code' = -1
    /\ pc' = "update"
    /\ UNCHANGED << posters_json, data_posters_json, assets, clock, data, runs, pdf_files, fixed,
                    log, assets_dir >>

NextCall ==
    \/ \E batch \in Batches, merge \in BOOLEAN : CallUpdateBackend(batch, merge) /\ UNCHANGED mergeVars
    \/ UpdateBackendStructured /\ UNCHANGED mergeVars
    \/ UpdateBackendFlat /\ UNCHANGED mergeVars

SpecCall == Init /\ [][NextCall]_vars

----------------------------------------------------------------------------
(* merge_poster on its own *)

InitMerge ==
    /\ InitStore({[structured |-> Absent, flat |-> Absent, pngs |-> {}]})
    /\ fixed = NotFixed
    /\ InitMergeArgs

NextMerge == CallMergePoster /\ UNCHANGED storeVars

SpecMerge == InitMerge /\ [][NextMerge]_vars

----------------------------------------------------------------------------
(* One import run with any command line: with or without --use-vision, with  *)
(* any override file, whatever the configuration checks find and whatever    *)
(* happens to each source                                                     *)

ExtractArgs ==
    [caller : {"main"}, dir : SUBSET Files, start_id : {1}, merge : {TRUE},
     use_vision : BOOLEAN, overrides : OverrideFiles]

InitExtract ==
    /\ InitStore({ [structured |-> Absent, flat |-> Absent, pngs |-> {}],
                   [structured |-> Structured(1, << StoredCurated, StoredBare >>),
                    flat |-> Flat(<< StoredCurated, StoredBare >>),
                    pngs |-> {"poster_001", "poster_002"}] })
    /\ fixed = NotFixed
    /\ MergeIdle

StartExtract ==
    /\ pc = "idle"
    /\ \E a \in ExtractArgs, dir_exists \in BOOLEAN, ollama_up \in BOOLEAN :
          Main(a, dir_exists, ollama_up)

NextExtract ==
    \/ StartExtract /\ UNCHANGED mergeVars
    \/ Steps(Outcomes(TRUE)) /\ UNCHANGED mergeVars

SpecExtract == InitExtract /\ [][NextExtract]_vars

----------------------------------------------------------------------------
(* One import run that may be killed between the two writes, and            *)
(* main --validate before or after it                                        *)

InitCrash ==
    /\ InitStore({ [structured |-> Absent, flat |-> Absent, pngs |-> {}],
                   [structured |-> Structured(1, << StoredCurated, StoredBare >>),
                    flat |-> Flat(<< StoredCurated, StoredBare >>),
                    pngs |-> {"poster_001", "poster_002"}] })
    /\ fixed = NotFixed
    /\ MergeIdle

StartCrashRun ==
    /\ pc = "idle"
    /\ \E a \in ImportArgs, dir_exists \in BOOLEAN : Main(a, dir_exists, TRUE)

NextCrash ==
    \/ StartCrashRun /\ UNCHANGED mergeVars
    \/ Steps({"png_fail", "text"}) /\ UNCHANGED mergeVars
    \/ Crash /\ UNCHANGED mergeVars
    \/ ValidateOnly /\ UNCHANGED mergeVars

SpecCrash == InitCrash /\ [][NextCrash]_vars

----------------------------------------------------------------------------
(* main --validate on any pair of store files and any asset directory        *)

\* a record with every required field
Stored(id, title) ==
    [id |-> id, title |-> title, authors |-> << "A" >>, tags |-> << "t" >>,
     abstract |-> "abstract", poster_image |-> "res://assets/posters/" \o id \o ".png"]

\* the empty value of the JSON type of field f
EmptyVal(f) == IF f \in ListFields THEN << >> ELSE ""

\* records a store file can hold: complete ones, a second one of an id, one
\* that lacks a required field, ones with a required field that is empty
ValidateRecords ==
    { Stored("poster_001", "T1"), Stored("poster_002", "T2"), Stored("poster_001", "T1 bis"),
      StoredNoAbstract }
    \cup { [Stored("poster_002", "T2") EXCEPT ![f] = EmptyVal(f)] : f \in REQUIRED_FIELDS }

RECURSIVE SeqsUpTo(_, _)
SeqsUpTo(S, n) ==
    IF n = 0 THEN { << >> }
    ELSE LET shorter == SeqsUpTo(S, n - 1)
         IN  shorter \cup {Append(q, x) : q \in {r \in shorter : Len(r) = n - 1}, x \in S}

AssetDirs == { {}, {"poster_001"}, {"poster_001", "poster_002", "poster_003"} }

\* one file holds any records, the other is missing, unreadable, empty, or
\* holds the same records
ValidateStores ==
    UNION { { [structured |-> Structured(1, q), flat |-> o, pngs |-> a] :
                 o \in {Absent, Corrupt, Flat(<< >>), Flat(q)}, a \in AssetDirs }
            \cup
            { [structured |-> o, flat |-> Flat(q), pngs |-> a] :
                 o \in {Absent, Corrupt, Structured(1, << >>), Flat(q)}, a \in AssetDirs }
            : q \in SeqsUpTo(ValidateRecords, MaxStored) }

InitValidate ==
    /\ InitStore(ValidateStores)
    /\ fixed = NotFixed
    /\ MergeIdle

NextValidate == ValidateOnly /\ UNCHANGED mergeVars

SpecValidate == InitValidate /\ [][NextValidate]_vars

----------------------------------------------------------------------------
(* apply_overrides on its own: any extracted content, any stem, and an       *)
(* override file that names one stem with a string, with a mapping of any    *)
(* keys, or with a value of another type                                      *)

\* keys a mapping of the override file may carry
OverrideKeys == OVERRIDE_FIELDS \cup {"faq", "booth_id"}

OverrideValues ==
    {StrOverride("Override title"), OtherOverride} \cup
    {DictOverride([k \in K |-> Val(k, "override")]) : K \in SUBSET OverrideKeys}

OverrideArgs ==
    {EmptyDict} \cup {[s \in {Stem(f)} |-> v] : f \in Files, v \in OverrideValues}

\* contents the extraction hands over: parsed from text, answered in full by
\* the vision model (with a key that was not asked for), answered in part
ContentArgs ==
    UNION { {parse_poster_content(f, TRUE, "poster_001"),
             VisionContent(f),
             [title |-> "Vision title of " \o Stem(f)]} : f \in Files }

mergeArgVars == << m_existing, m_new, m_now, m_result, m_pc >>

InitOverride ==
    /\ InitStore({[structured |-> Absent, flat |-> Absent, pngs |-> {}]})
    /\ fixed = NotFixed
    /\ m_existing = EmptyDict
    /\ m_new = EmptyDict
    /\ m_now = << 0, 0 >>
    /\ m_result = NoResult
    /\ m_pc = "idle"
    /\ \E c \in ContentArgs, f \in Files, o \in OverrideArgs :
          fcall = [fn |-> "apply_overrides", pc |-> "call", content |-> c,
                   pdf_basename |-> Stem(f), overrides |-> o, result |-> EmptyDict]

CallApplyOverrides ==
    /\ fcall.pc = "call"
    /\ fcall.fn = "apply_overrides"
    /\ fcall' = [fcall EXCEPT
                    !.result = apply_overrides(fcall.content, fcall.pdf_basename, fcall.overrides),
                    !.pc = "return"]
    /\ UNCHANGED mergeArgVars

NextOverride == CallApplyOverrides /\ UNCHANGED storeVars

SpecOverride == InitOverride /\ [][NextOverride]_vars

----------------------------------------------------------------------------
(* Import runs in merge mode with the same --start-id, on an empty store,    *)
(* the source directory gaining or losing files between the runs             *)

StableArgs ==
    [caller : {"main"}, dir : SUBSET Files, start_id : {1}, merge : {TRUE},
     use_vision : {FALSE}, overrides : {EmptyDict}]

InitStable ==
    /\ InitStore({[structured |-> Absent, flat |-> Absent, pngs |-> {}]})
    /\ fixed = NotFixed
    /\ MergeIdle

StartStable ==
    /\ runs < MaxRuns
    /\ \E a \in StableArgs : Main(a, TRUE, TRUE)

NextStable ==
    \/ StartStable /\ UNCHANGED mergeVars
    \/ Steps({"png_fail", "text"}) /\ UNCHANGED mergeVars

SpecStable == InitStable /\ [][NextStable]_vars

----------------------------------------------------------------------------
(* extract_title_from_text on its own.  A line is what the function looks at *)
(* in it: its length, whether one of skip_patterns matches it, whether it    *)
(* holds '@' or 'http', whether it has an uppercase character.  The result   *)
(* names the line returned by its position.                                  *)

TitleWindow == 10

FallbackWindow == 5

MinTitleLen == 10

MaxTitleLen == 150

Line(len, skip, mark, upper) == [len |-> len, skip |-> skip, mark |-> mark, upper |-> upper]

\* f"Research Poster {poster_id}"
Synthesized(poster_id) == [kind |-> "synthesized", text |-> "Research Poster " \o poster_id]

\* line i as it is, or its first MaxTitleLen characters and "..."
Returned(i, cut) == [kind |-> "line", index |-> i, cut |-> cut]

Least(S) == CHOOSE i \in S : \A j \in S : i <= j

UpTo(lines, window) == 1..(IF Len(lines) < window THEN Len(lines) ELSE window)

\* lines 184-189: the test a line of the first loop passes
TitleLike(line) ==
    /\ ~line.skip
    /\ ~(line.len < MinTitleLen \/ line.mark)
    /\ MinTitleLen <= line.len /\ line.len <= MaxTitleLen /\ line.upper

extract_title_any_fallback(lines, poster_id) ==
    IF lines = << >> THEN Synthesized(poster_id)
    ELSE LET first  == {i \in UpTo(lines, TitleWindow) : TitleLike(lines[i])}
             second == {i \in 1..Len(lines) : lines[i].len > MinTitleLen}
         IN  IF first # {} THEN Returned(Least(first), FALSE)
             ELSE IF second # {}
                  THEN Returned(Least(second), lines[Least(second)].len > MaxTitleLen)
             ELSE Synthesized(poster_id)

\* lines 170-195
extract_title_from_text(lines, poster_id) ==
    IF lines = << >> THEN Synthesized(poster_id)
    ELSE LET first  == {i \in UpTo(lines, TitleWindow) : TitleLike(lines[i])}
             second == {i \in UpTo(lines, FallbackWindow) : lines[i].len > MinTitleLen}
         IN  IF first # {} THEN Returned(Least(first), FALSE)
             ELSE IF second # {}
                  THEN Returned(Least(second), lines[Least(second)].len > MaxTitleLen)
             ELSE Synthesized(poster_id)

\* lines that pass neither loop, or the second loop only
FillerLines == { Line(9, FALSE, FALSE, TRUE), Line(10, FALSE, FALSE, FALSE),
                 Line(23, TRUE, FALSE, TRUE) }

\* lines on either side of each test of the two loops
SpecialLines ==
    FillerLines \cup
    { Line(20, FALSE, TRUE, TRUE), Line(11, FALSE, FALSE, FALSE), Line(10, FALSE, FALSE, TRUE),
      Line(150, FALSE, FALSE, TRUE), Line(151, FALSE, FALSE, TRUE) }

\* RISE Research Institute / Page 3 / Federated Learning for Edge Devices in
\* Smart Grids / J. Doe / A. Smith
ExampleLines ==
    << Line(23, TRUE, FALSE, TRUE), Line(6, TRUE, FALSE, TRUE), Line(50, FALSE, FALSE, TRUE),
       Line(6, FALSE, FALSE, TRUE), Line(8, FALSE, FALSE, TRUE) >>

\* texts of up to MaxLines lines: filler lines, with special lines at up to two
\* positions
TitleArgs ==
    { [k \in 1..n |-> IF k = i THEN a ELSE IF k = j THEN b ELSE f] :
        n \in 0..MaxLines, i \in 1..MaxLines, j \in 1..MaxLines,
        f \in FillerLines, a \in SpecialLines, b \in SpecialLines }
    \cup { ExampleLines }

InitTitle ==
    /\ InitStore({[structured |-> Absent, flat |-> Absent, pngs |-> {}]})
    /\ fixed = NotFixed
    /\ m_existing = EmptyDict
    /\ m_new = EmptyDict
    /\ m_now = << 0, 0 >>
    /\ m_result = NoResult
    /\ m_pc = "idle"
    /\ \E l \in TitleArgs :
          fcall = [fn |-> "extract_title_from_text", pc |-> "call", lines |-> l,
                   poster_id |-> "poster_001", result |-> Synthesized("")]

CallExtractTitle ==
    /\ fcall.pc = "call"
    /\ fcall.fn = "extract_title_from_text"
    /\ fcall' = [fcall EXCEPT !.result = extract_title_from_text(fcall.lines, fcall.poster_id),
                              !.pc = "return"]
    /\ UNCHANGED mergeArgVars

NextTitle == CallExtractTitle /\ UNCHANGED storeVars

SpecTitle == InitTitle /\ [][NextTitle]_vars

----------------------------------------------------------------------------
(* PosterMetadataManager.merge_poster of extract_posters.py, on its own: the *)
(* merge of the CSV/JSON import path                                         *)

\* extract_posters.py line 52
MANAGER_PRESERVE_FIELDS == {"faq", "booth_id", "room", "related_links"}

\* extract_posters.py lines 102-103: the fields the first loop copies
MANAGER_BASIC_FIELDS == BASIC_FIELDS \cup {"keywords", "contact_email"}

\* extract_posters.py lines 90-130; the warnings are those of line 113
Manager_merge_poster(existing, new, now) ==
    LET a  == PutAll(existing, new, MANAGER_BASIC_FIELDS)
        b  == PutAll(a, new, MANAGER_PRESERVE_FIELDS)
        m0 == IF "metadata" \in DOMAIN b THEN b["metadata"] ELSE EmptyDict
        m1 == Put(m0, "updated_at", now)
        m2 == IF HasCreatedAt(existing)
              THEN Put(m1, "created_at", existing["metadata"]["created_at"]) ELSE m1
        m3 == IF "metadata" \in DOMAIN new /\ "source" \in DOMAIN new["metadata"]
              THEN Put(m2, "source", new["metadata"]["source"]) ELSE m2
    IN  [ merged   |-> Put(b, "metadata", m3),
          warnings |-> MANAGER_PRESERVE_FIELDS \cap DOMAIN new ]

CallManagerMergePoster ==
    /\ m_pc = "call"
    /\ m_result' = Manager_merge_poster(m_existing, m_new, m_now[1])
    /\ m_pc' = "return"
    /\ UNCHANGED << m_existing, m_new, m_now, fcall >>

NextManagerMerge == CallManagerMergePoster /\ UNCHANGED storeVars

SpecManagerMerge == InitMerge /\ [][NextManagerMerge]_vars

----------------------------------------------------------------------------
(* Import runs of which any may be killed between the two writes *)

StartRecover ==
    /\ runs < MaxRuns
    /\ \E a \in ImportArgs : Main(a, TRUE, TRUE)

NextRecover ==
    \/ StartRecover /\ UNCHANGED mergeVars
    \/ Steps({"png_fail", "text"}) /\ UNCHANGED mergeVars
    \/ Crash /\ UNCHANGED mergeVars

SpecRecover == InitCrash /\ [][NextRecover]_vars

----------------------------------------------------------------------------
(* Properties *)

Merged == m_result.merged

\* the posters a run or call found in the structured file when it started
Before == PostersOf(pre.structured)

Now == PostersOf(posters_json)

FlatNow == PostersOf(data_posters_json)

HasStamps(p) == HasCreatedAt(p) /\ "updated_at" \in DOMAIN p["metadata"]

\* the id and the content fields of a poster
ContentOf(p) == [x \in DOMAIN p \cap ({"id"} \cup BASIC_FIELDS) |-> p[x]]

\* a poster without metadata.updated_at
StripUpdated(p) ==
    IF "metadata" \in DOMAIN p
    THEN Put(p, "metadata", [k \in DOMAIN p["metadata"] \ {"updated_at"} |-> p["metadata"][k]])
    ELSE p

StripAll(posters) == [i \in 1..Len(posters) |-> StripUpdated(posters[i])]

\* C1: merge_poster keeps, with exactly the existing value, every curated field
\* that the existing record has and the candidate has not.
C1_CuratedPreserved ==
    m_pc = "return" =>
        \A f \in PRESERVE_FIELDS :
            (f \in DOMAIN m_existing /\ f \notin DOMAIN m_new)
                => (f \in DOMAIN Merged /\ Merged[f] = m_existing[f])

C1_Witness ==
    /\ m_pc = "return"
    /\ {"booth_id", "faq"} \subseteq DOMAIN m_existing
    /\ PRESERVE_FIELDS \cap DOMAIN m_new = {}
    /\ Merged["booth_id"] = "old" /\ Merged["faq"] = << "old" >>
    /\ Merged["title"] = "new"

\* C2: a curated field the candidate supplies takes the candidate's value and
\* is warned about; the other curated fields of the existing record are kept;
\* no curated field of the merged record differs from the existing record
\* without a warning for it.
C2_OverwriteWarned ==
    m_pc = "return" =>
        /\ \A f \in PRESERVE_FIELDS \cap DOMAIN m_new :
              f \in DOMAIN Merged /\ Merged[f] = m_new[f] /\ f \in m_result.warnings
        /\ \A f \in (PRESERVE_FIELDS \cap DOMAIN m_existing) \ DOMAIN m_new :
              f \in DOMAIN Merged /\ Merged[f] = m_existing[f]
        /\ \A f \in PRESERVE_FIELDS \ m_result.warnings :
              /\ (f \in DOMAIN Merged) = (f \in DOMAIN m_existing)
              /\ f \in DOMAIN Merged => Merged[f] = m_existing[f]

C2_Witness ==
    /\ m_pc = "return"
    /\ {"booth_id", "faq"} \subseteq DOMAIN m_existing
    /\ PRESERVE_FIELDS \cap DOMAIN m_new = {"booth_id"}
    /\ m_existing["booth_id"] = "old" /\ Merged["booth_id"] = "new"
    /\ Merged["faq"] = m_existing["faq"]
    /\ m_result.warnings = {"booth_id"}

\* C3: a third run of the same import on a store that two runs of it built
\* from nothing leaves, in both files, the records of the second run in the
\* same order, equal in every field except metadata.updated_at.
C3_Idempotent ==
    (pc = "exit" /\ runs >= 3 /\ written # {}) =>
        /\ StripAll(Now) = StripAll(Before)
        /\ StripAll(FlatNow) = StripAll(PostersOf(pre.flat))

C3_Witness ==
    /\ pc = "exit" /\ runs = 3 /\ exit_code = 0
    /\ Len(Now) = 2
    /\ StripAll(Now) = StripAll(Before)
    /\ Now # Before

\* C4: when update_backend returns, the flat file and the structured file hold
\* the same ids, with equal content fields, record by record.
C4_DualFileConsistent ==
    pc \in {"returned", "validate"} =>
        /\ Len(FlatNow) = Len(Now)
        /\ \A i \in 1..Len(Now) : ContentOf(FlatNow[i]) = ContentOf(Now[i])
        /\ Ids(FlatNow) = Ids(Now)

C4_Witness ==
    /\ pc = "returned"
    /\ Ids(PostersOf(pre.flat)) # Ids(Before)
    /\ Len(Now) >= 2
    /\ \E i \in 1..Len(Now) : ~HasCreatedAt(Now[i])
    /\ FlatNow = Now

\* C5: after a merge-mode update_backend whose batch holds two candidates of
\* one id, the store holds exactly one record of that id, with the content of
\* the later candidate.
C5_LaterCandidateWins ==
    (pc = "returned" /\ args.merge) =>
        \A i, j \in 1..Len(new_posters) :
            (i < j /\ new_posters[i]["id"] = new_posters[j]["id"]
                   /\ \A k \in (j + 1)..Len(new_posters) : new_posters[k]["id"] # new_posters[j]["id"])
            => /\ Cardinality({n \in 1..Len(Now) : Now[n]["id"] = new_posters[j]["id"]}) = 1
               /\ \A n \in 1..Len(Now) :
                     Now[n]["id"] = new_posters[j]["id"]
                        => ContentOf(Now[n]) = ContentOf(new_posters[j])

\* C6: the structured store never holds two records of one id, whatever import
\* runs were made on a store that had none.
C6_OneRecordPerId == UniqueIds(Now)

C6_Witness ==
    /\ pc = "exit" /\ runs = 2 /\ exit_code = 0
    /\ args.merge
    /\ Len(Now) = 3
    /\ Ids(Before) \cap Ids(new_posters) # {}
    /\ Len(new_posters) = 2

\* C7: a merge-mode update_backend writes every record of the existing store
\* whose id is not in the batch, with every field unchanged.
C7_AbsentRecordsCarried ==
    (pc = "returned" /\ args.merge) =>
        \A i \in 1..Len(Before) :
            Before[i]["id"] \notin Ids(new_posters)
                => \E n \in 1..Len(Now) : Now[n] = Before[i]

\* C8: a merge-mode import keeps metadata.created_at of every stored record it
\* merges a candidate into, and sets metadata.updated_at of that record to a
\* clock reading of the merge.
C8_Merges ==
    pc = "update" /\ pc' = "flat" /\ args.merge

C8_CreatedAtKept ==
    [][ C8_Merges =>
          \A i \in 1..Len(Now) :
              (HasCreatedAt(Now[i]) /\ Now[i]["id"] \in Ids(new_posters))
                 => \E n \in 1..Len(posters_json'.posters) :
                       LET p == posters_json'.posters[n]
                       IN  /\ p["id"] = Now[i]["id"]
                           /\ HasStamps(p)
                           /\ p["metadata"]["created_at"] = Now[i]["metadata"]["created_at"]
                           /\ clock <= p["metadata"]["updated_at"]
                           /\ p["metadata"]["updated_at"] <= clock' ]_vars

C8_Witness ==
    /\ pc = "flat" /\ args.merge /\ runs = 1
    /\ \E i \in 1..Len(Before), n \in 1..Len(Now), k \in 1..Len(new_posters) :
          /\ Before[i]["id"] = Now[n]["id"] /\ new_posters[k]["id"] = Now[n]["id"]
          /\ HasCreatedAt(Before[i])
          /\ Now[n]["metadata"]["created_at"] = Before[i]["metadata"]["created_at"]
          /\ new_posters[k]["metadata"]["created_at"] # Before[i]["metadata"]["created_at"]
          /\ Now[n]["metadata"]["updated_at"] > Before[i]["metadata"]["updated_at"]

\* C9: every record process_pdfs or merge_poster produced has
\* metadata.created_at <= metadata.updated_at.
C9_CreatedBeforeUpdated ==
    \A p \in Range(new_posters) \cup Range(Now) :
        HasStamps(p) => p["metadata"]["created_at"] <= p["metadata"]["updated_at"]

----------------------------------------------------------------------------
(* Validation *)

\* main --validate has returned
Validated == pc = "exit" /\ args.caller = "validate"

\* the records of both files
RecordsOfBoth == Range(PostersOf(posters_json)) \cup Range(PostersOf(data_posters_json))

\* C11: validation fails whenever the two files do not hold the same records
\* (the same ids with equal content), as after a run that was killed between
\* the structured write and the flat write.
C11_InconsistentFilesRejected ==
    (Validated /\ Range(PostersOf(posters_json)) # Range(PostersOf(data_posters_json)))
        => exit_code = 1

\* a record lacks a required field, or the PNG of its id is not in the asset
\* directory
LacksFieldOrAsset(p) ==
    \/ ~(REQUIRED_FIELDS \subseteq DOMAIN p)
    \/ p["id"] \notin assets

\* C12: validation fails when a record of either file lacks a required field
\* or the PNG of its id; it succeeds when both files exist and are read and
\* every record of both has all required fields and its PNG.
C12_FieldsAndAssetsChecked ==
    Validated =>
        /\ exit_code \in {0, 1}
        /\ (\E p \in RecordsOfBoth : LacksFieldOrAsset(p)) => exit_code = 1
        /\ ( /\ posters_json.kind \in {"dict", "list"}
             /\ data_posters_json.kind \in {"dict", "list"}
             /\ \A p \in RecordsOfBoth : ~LacksFieldOrAsset(p) ) => exit_code = 0

\* C13: validation fails when a record has a required field that is empty.
C13_EmptyFieldRejected ==
    Validated =>
        ( (\E p \in RecordsOfBoth : \E f \in REQUIRED_FIELDS \cap DOMAIN p : p[f] = EmptyVal(f))
          => exit_code = 1 )

\* C14: validation fails when a file holds two records of one id.
C14_DuplicateIdRejected ==
    Validated =>
        ( (~UniqueIds(PostersOf(posters_json)) \/ ~UniqueIds(PostersOf(data_posters_json)))
          => exit_code = 1 )

----------------------------------------------------------------------------
(* Extraction of the sources of a batch *)

\* the record a logged iteration appended to the batch
CandidateOf(e) == CHOOSE p \in Range(new_posters) : p["id"] = e.id

HasCandidate(e) == \E p \in Range(new_posters) : p["id"] = e.id

\* the fields no override of OverrideFiles touches tell which extraction made
\* the content
FromText(e) ==
    LET parsed == parse_poster_content(e.file, e.text = "lines", e.id)
    IN  /\ HasCandidate(e)
        /\ CandidateOf(e)["authors"] = parsed["authors"]
        /\ CandidateOf(e)["tags"] = parsed["tags"]

FromVision(e) ==
    /\ HasCandidate(e)
    /\ CandidateOf(e)["authors"] = VisionContent(e.file)["authors"]
    /\ CandidateOf(e)["tags"] = VisionContent(e.file)["tags"]

\* C15: a source whose PNG conversion failed still has its metadata extracted
\* and its candidate in the batch, with poster_image naming <id>.png.
C15_CandidateDespitePngFailure ==
    \A i \in 1..Len(log) :
        ~log[i].png =>
            /\ log[i].by # "none"
            /\ HasCandidate(log[i])
            /\ CandidateOf(log[i])["poster_image"] = "res://assets/posters/" \o log[i].id \o ".png"

\* C16: with --use-vision every source whose PNG was made gets the vision call
\* first, also after a source whose call failed; a source whose call returned
\* None gets its candidate from text parsing and the loop goes on; a source the
\* model answered in full never gets text parsing.
C16_VisionFallback ==
    args.use_vision =>
        \A i \in 1..Len(log) :
            log[i].png =>
                /\ log[i].vision # "not_called"
                /\ log[i].vision = "failed" =>
                       /\ log[i].by = "text"
                       /\ log[i].text # "not_called"
                       /\ ~log[i].fault
                       /\ FromText(log[i])
                       /\ i = Len(log) => pc # "exit" \/ pdf_files = << >>
                /\ log[i].vision = "ok" =>
                       /\ log[i].by = "vision"
                       /\ log[i].text = "not_called"
                       /\ FromVision(log[i])

C16_Witness ==
    /\ args.use_vision
    /\ Len(log) = 2
    /\ log[1].vision = "failed" /\ log[1].text = "raised" /\ FromText(log[1])
    /\ log[2].vision = "ok" /\ FromVision(log[2])
    /\ pc = "flat"

\* C17: a vision answer that is JSON but not the object asked for (no object,
\* or an object without one of the four fields) makes the source fall back to
\* text parsing, and raises nothing that ends the run.
C17_BadShapeFallsBack ==
    \A i \in 1..Len(log) :
        log[i].vision \in {"partial", "other", "empty"} =>
            /\ log[i].by = "text"
            /\ ~log[i].fault
            /\ FromText(log[i])

\* C18: a source whose rendering fails, whose text extraction raises or whose
\* vision call fails does not end the loop; every source of the directory is
\* processed under the id of its position, and the run reaches update_backend
\* with the candidates that were made.
C18_FailureConfined ==
    /\ \A i \in 1..Len(log) :
           /\ log[i].file = Sorted(args.dir)[i]
           /\ log[i].id = PosterId(args.start_id + i - 1)
           /\ (~log[i].png \/ log[i].text = "raised" \/ log[i].vision \notin {"not_called", "ok"})
                  => ~log[i].fault
    /\ (pc = "exit" /\ args.caller = "main" /\ new_posters # << >>) => written # {}

----------------------------------------------------------------------------
(* Overrides *)

\* the override of the stem a returned call was made for
Called == fcall.overrides[fcall.pdf_basename]

\* the call left key k of the content as it was
Untouched(k) ==
    /\ k \in DOMAIN fcall.result <=> k \in DOMAIN fcall.content
    /\ k \in DOMAIN fcall.content => fcall.result[k] = fcall.content[k]

AllKeys == DOMAIN fcall.content \cup DOMAIN fcall.result \cup OverrideKeys

\* C19: apply_overrides returns the content unchanged when the stem is no key
\* of the overrides; replaces the title alone when the override is a string;
\* when it is a mapping, replaces exactly the fields among title, authors,
\* tags, abstract that the mapping names, by the mapping's values, and leaves
\* every other field as it was, whatever other keys the mapping has.
C19_OverridesApplied ==
    (fcall.fn = "apply_overrides" /\ fcall.pc = "return") =>
        /\ fcall.pdf_basename \notin DOMAIN fcall.overrides => fcall.result = fcall.content
        /\ (fcall.pdf_basename \in DOMAIN fcall.overrides /\ Called.kind = "str") =>
               /\ fcall.result["title"] = Called.value
               /\ \A k \in AllKeys \ {"title"} : Untouched(k)
        /\ (fcall.pdf_basename \in DOMAIN fcall.overrides /\ Called.kind = "dict") =>
               \A k \in AllKeys :
                   IF k \in {"title", "authors", "tags", "abstract"} /\ k \in DOMAIN Called.fields
                   THEN k \in DOMAIN fcall.result /\ fcall.result[k] = Called.fields[k]
                   ELSE Untouched(k)

C19_Witness ==
    /\ fcall.fn = "apply_overrides" /\ fcall.pc = "return"
    /\ fcall.pdf_basename \in DOMAIN fcall.overrides
    /\ Called.kind = "dict"
    /\ {"abstract", "faq", "booth_id"} \subseteq DOMAIN Called.fields
    /\ "title" \notin DOMAIN Called.fields
    /\ {"abstract", "booth_id"} \subseteq DOMAIN fcall.content
    /\ fcall.result["abstract"] = Called.fields["abstract"]
    /\ fcall.result["abstract"] # fcall.content["abstract"]
    /\ "faq" \notin DOMAIN fcall.result
    /\ fcall.result["booth_id"] = fcall.content["booth_id"]
    /\ fcall.result["booth_id"] # Called.fields["booth_id"]

----------------------------------------------------------------------------
(* Configuration failures *)

\* C20: when the source directory does not exist, or --use-vision is given and
\* the vision service does not answer the probe, main exits non-zero in that
\* step: the asset directory is not created, no PNG is rendered, no source is
\* extracted and neither store file is written.
C20_ConfigFailureFirst ==
    [][ ( /\ pc \in {"idle", "exit"}
          /\ args'.caller = "main"
          /\ ~args'.dir_exists \/ (args'.use_vision /\ ~args'.ollama_up) )
        => /\ pc' = "exit"
           /\ exit_code' # 0
           /\ assets_dir' = assets_dir
           /\ assets' = assets
           /\ log' = << >>
           /\ new_posters' = << >>
           /\ written' = {}
           /\ posters_json' = posters_json
           /\ data_posters_json' = data_posters_json ]_vars

C20_Witness ==
    /\ pc = "exit" /\ exit_code = 1
    /\ args.use_vision /\ ~args.ollama_up /\ args.dir_exists /\ args.dir # {}
    /\ ~assets_dir /\ assets = {} /\ log = << >> /\ written = {}
    /\ posters_json = Absent /\ data_posters_json = Absent

----------------------------------------------------------------------------
(* The flat file *)

\* C21: the flat file update_backend writes is a bare array, and each of its
\* records is the structured record of the same position without the metadata
\* block: the same fields but for metadata, with the same values.
C21_FlatStripped ==
    pc \in {"returned", "validate"} =>
        /\ data_posters_json.kind = "list"
        /\ Len(FlatNow) = Len(Now)
        /\ \A i \in 1..Len(Now) :
              /\ DOMAIN FlatNow[i] = DOMAIN Now[i] \ {"metadata"}
              /\ \A k \in (DOMAIN FlatNow[i] \cap DOMAIN Now[i]) \ {"metadata"} :
                    FlatNow[i][k] = Now[i][k]

----------------------------------------------------------------------------
(* Ids of sources *)

\* the source file a stored record was made from, "" when it names none
SourceFileOf(p) ==
    IF "metadata" \in DOMAIN p /\ "source_file" \in DOMAIN p["metadata"]
    THEN p["metadata"]["source_file"] ELSE ""

\* C22: with the same --start-id, a source file that a record of the store was
\* made from is given the id of that record again, whatever files the
\* directory gained or lost, and no record of the store comes to hold the
\* content of another source file.
C22_IdStable ==
    /\ \A i \in 1..Len(log) : \A p \in Range(PostersOf(pre.structured)) :
          SourceFileOf(p) = FileName(log[i].file) => p["id"] = log[i].id
    /\ \A p \in Range(PostersOf(pre.structured)) : \A q \in Range(Now) :
          (p["id"] = q["id"] /\ SourceFileOf(p) # "") => SourceFileOf(q) = SourceFileOf(p)

----------------------------------------------------------------------------
(* Order and ids of the candidates of a batch *)

Digit(d) ==
    CASE d = 0 -> "0" [] d = 1 -> "1" [] d = 2 -> "2" [] d = 3 -> "3" [] d = 4 -> "4"
      [] d = 5 -> "5" [] d = 6 -> "6" [] d = 7 -> "7" [] d = 8 -> "8" [] d = 9 -> "9"

\* the three decimal digits of n, for 0 <= n <= 999
Pad3(n) == Digit(n \div 100) \o Digit((n \div 10) % 10) \o Digit(n % 10)

\* the number an id was made from
IdNumber(id) == CHOOSE n \in 0..(MaxStartId + MaxFiles) : id = "poster_" \o Pad3(n)

\* the entries of the log up to the i-th that made a candidate
CandidatesUpTo(i) == Cardinality({j \in 1..i : log[j].candidate})

\* C23: process_pdfs takes the PDFs in filename order and gives the k-th
\* (from 0) the id poster_<start_id + k> with three digits, a skipped source
\* keeping its index; the candidates of the batch are in filename order, with
\* strictly increasing ids.
C23_IdsByPosition ==
    args.caller = "main" =>
        /\ Len(log) <= Cardinality(args.dir)
        /\ \A i \in 1..Len(log) :
              /\ log[i].file \in args.dir
              /\ Cardinality({f \in args.dir : f < log[i].file}) = i - 1
              /\ log[i].id = "poster_" \o Pad3(args.start_id + i - 1)
              /\ log[i].candidate =>
                    /\ CandidatesUpTo(i) <= Len(new_posters)
                    /\ new_posters[CandidatesUpTo(i)]["id"] = log[i].id
                    /\ SourceFileOf(new_posters[CandidatesUpTo(i)]) = FileName(log[i].file)
        /\ Len(new_posters) = CandidatesUpTo(Len(log))
        /\ \A k, l \in 1..Len(new_posters) :
              k < l => IdNumber(new_posters[k]["id"]) < IdNumber(new_posters[l]["id"])

C23_Witness ==
    /\ args.caller = "main" /\ args.start_id = 2
    /\ Len(log) = 2
    /\ ~log[1].png /\ ~log[1].candidate
    /\ log[2].candidate
    /\ Len(new_posters) = 1
    /\ new_posters[1]["id"] = "poster_003"
    /\ pc = "update"

----------------------------------------------------------------------------
(* Content fields, id and provenance of a merged record *)

\* whether the metadata block of p has key k
HasMeta(p, k) == "metadata" \in DOMAIN p /\ k \in DOMAIN p["metadata"]

\* C24: the record merge_poster returns has, for each of title, abstract,
\* authors, tags, poster_image, the candidate's value when the candidate has
\* the field and the existing one otherwise; its id is the existing record's;
\* metadata.source and metadata.source_file are the candidate's when it has
\* them and the existing record's otherwise.
C24_ContentIdProvenance ==
    m_pc = "return" =>
        /\ \A f \in {"title", "abstract", "authors", "tags", "poster_image"} :
              IF f \in DOMAIN m_new
              THEN f \in DOMAIN Merged /\ Merged[f] = m_new[f]
              ELSE /\ f \in DOMAIN Merged <=> f \in DOMAIN m_existing
                   /\ f \in DOMAIN m_existing => Merged[f] = m_existing[f]
        /\ Merged["id"] = m_existing["id"]
        /\ \A k \in {"source", "source_file"} :
              IF HasMeta(m_new, k)
              THEN HasMeta(Merged, k) /\ Merged["metadata"][k] = m_new["metadata"][k]
              ELSE /\ HasMeta(Merged, k) <=> HasMeta(m_existing, k)
                   /\ HasMeta(m_existing, k) => Merged["metadata"][k] = m_existing["metadata"][k]

C24_Witness ==
    /\ m_pc = "return"
    /\ m_new["id"] # m_existing["id"]
    /\ Merged["id"] = m_existing["id"]
    /\ "title" \notin DOMAIN m_new /\ Merged["title"] = m_existing["title"]
    /\ "abstract" \in DOMAIN m_new /\ Merged["abstract"] = m_new["abstract"]
    /\ m_new["abstract"] # m_existing["abstract"]
    /\ HasMeta(m_new, "source") /\ ~HasMeta(m_new, "source_file")
    /\ HasMeta(m_existing, "source_file")
    /\ Merged["metadata"]["source"] = "json_import"
    /\ Merged["metadata"]["source_file"] = "old.pdf"

----------------------------------------------------------------------------
(* Titles *)

\* extract_title_from_text has returned
TitleReturned == fcall.fn = "extract_title_from_text" /\ fcall.pc = "return"

\* line i is among the first ten, matches no boilerplate pattern, holds no '@'
\* and no URL marker, is 10 to 150 long and has an uppercase character
GoodTitle(i) ==
    /\ i <= 10
    /\ ~fcall.lines[i].skip /\ ~fcall.lines[i].mark
    /\ fcall.lines[i].len >= 10 /\ fcall.lines[i].len <= 150
    /\ fcall.lines[i].upper

NoGoodTitle == \A i \in 1..Len(fcall.lines) : ~GoodTitle(i)

\* line i is the first of the lines of I that is over the minimum length
FirstOver(i, I) ==
    /\ i \in I
    /\ fcall.lines[i].len > 10
    /\ \A j \in I : j < i => ~(fcall.lines[j].len > 10)

\* the result is line i, cut to 150 characters and "..." when it is longer
IsLine(i) ==
    fcall.result = [kind |-> "line", index |-> i, cut |-> fcall.lines[i].len > 150]

IsSynthesized == fcall.result = [kind |-> "synthesized", text |-> "Research Poster poster_001"]

\* C25 as stated: the first good line of the first ten; without one, the first
\* line over the minimum length, cut when longer than 150; the synthesized
\* title when there are no lines; the third line for the example.
C25_TitleAsStated ==
    TitleReturned =>
        /\ \A i \in 1..Len(fcall.lines) :
              (GoodTitle(i) /\ \A j \in 1..(i - 1) : ~GoodTitle(j)) => IsLine(i)
        /\ \A i \in 1..Len(fcall.lines) :
              (NoGoodTitle /\ FirstOver(i, 1..Len(fcall.lines))) => IsLine(i)
        /\ fcall.lines = << >> => IsSynthesized
        /\ fcall.lines = ExampleLines => IsLine(3)

\* C25, amended: the fallback looks at the first five lines only, and the
\* title is synthesized whenever neither loop returns a line.
C25_Title ==
    TitleReturned =>
        /\ \A i \in 1..Len(fcall.lines) :
              (GoodTitle(i) /\ \A j \in 1..(i - 1) : ~GoodTitle(j)) => IsLine(i)
        /\ \A i \in 1..Len(fcall.lines) :
              (NoGoodTitle /\ FirstOver(i, 1..5)) => IsLine(i)
        /\ (NoGoodTitle /\ \A i \in 1..Len(fcall.lines) : ~FirstOver(i, 1..5)) => IsSynthesized
        /\ fcall.lines = ExampleLines => IsLine(3)

C25_Witness ==
    /\ TitleReturned
    /\ NoGoodTitle
    /\ Len(fcall.lines) > 5
    /\ \E i \in 6..Len(fcall.lines) : FirstOver(i, 1..Len(fcall.lines))
    /\ IsSynthesized

----------------------------------------------------------------------------
(* Curated fields in the CSV/JSON import path *)

\* C26: in the merge of the CSV/JSON import path each of faq, booth_id, room,
\* related_links, keywords, contact_email keeps the existing value unless the
\* candidate has the field, and every replacement of an existing value is
\* warned of.
C26_ManagerCuratedProtected ==
    m_pc = "return" =>
        \A f \in {"faq", "booth_id", "room", "related_links", "keywords", "contact_email"} :
            /\ (f \in DOMAIN m_existing /\ f \notin DOMAIN m_new) =>
                   f \in DOMAIN Merged /\ Merged[f] = m_existing[f]
            /\ (f \in DOMAIN m_existing /\ f \in DOMAIN m_new) =>
                   Merged[f] = m_new[f] /\ f \in m_result.warnings

----------------------------------------------------------------------------
(* Curated fields across a PDF import run *)

\* the record of id `id` among `posters`
RecordOf(posters, id) == CHOOSE p \in Range(posters) : p["id"] = id

\* C27: in merge mode no candidate of process_pdfs carries a curated field,
\* and every record the store held when the run started is still in it with
\* the same curated fields and values, whatever the vision model answered and
\* whatever the override file names.
C27_CuratedUntouchedByImport ==
    (args.caller = "main" /\ args.merge) =>
        /\ \A p \in Range(new_posters) : DOMAIN p \cap PRESERVE_FIELDS = {}
        /\ \A old \in Range(Before) :
              /\ old["id"] \in Ids(Now)
              /\ \A f \in PRESERVE_FIELDS :
                    /\ f \in DOMAIN RecordOf(Now, old["id"]) <=> f \in DOMAIN old
                    /\ f \in DOMAIN old => RecordOf(Now, old["id"])[f] = old[f]

C27_Witness ==
    /\ args.caller = "main" /\ args.merge /\ args.use_vision
    /\ Stem(1) \in DOMAIN args.overrides
    /\ args.overrides[Stem(1)].kind = "dict"
    /\ "faq" \in DOMAIN args.overrides[Stem(1)].fields
    /\ Len(log) >= 1 /\ log[1].vision = "ok"
    /\ pc = "exit" /\ exit_code = 0
    /\ "poster_001" \in Ids(Before)
    /\ RecordOf(Now, "poster_001")["title"] = "Vision title of p1"
    /\ RecordOf(Now, "poster_001")["abstract"] = "Override abstract"
    /\ RecordOf(Now, "poster_001")["booth_id"] = "B3"
    /\ RecordOf(Now, "poster_001")["faq"] = << "Q1" >>

----------------------------------------------------------------------------
(* Recovery and failures of the commit *)

\* update_backend of an import run has written both files
Committed ==
    /\ args.caller = "main"
    /\ pc \in {"validate", "exit"}
    /\ written = {"posters_json", "data_posters_json"}

\* C28: a run that starts on a structured file and a flat file that differ (the
\* run before it stopped between the two writes) and whose update_backend
\* completes leaves both files with the same sequence of records; it has
\* merged against the structured file: in merge mode every record of the
\* structured file is still there, untouched when the batch has no candidate
\* of its id.
C28_RecoversFromInterruptedCommit ==
    (Committed /\ Before # PostersOf(pre.flat)) =>
        /\ FlatNow = Now
        /\ args.merge =>
              \A old \in Range(Before) :
                  /\ old["id"] \in Ids(Now)
                  /\ old["id"] \notin Ids(new_posters) => old \in Range(Now)

C28_Witness ==
    /\ Committed /\ args.merge /\ runs >= 1
    /\ \E old \in Range(Before) :
          /\ SourceFileOf(old) = FileName(2)
          /\ old \notin Range(PostersOf(pre.flat))
          /\ old["id"] \notin Ids(PostersOf(pre.flat))
          /\ old["id"] \notin Ids(new_posters)
          /\ old \in Range(Now)
    /\ FlatNow = Now
    /\ Now # Before

\* C29: when json.load rejects the structured file, update_backend raises
\* before it writes: both files stay as the call found them, in merge mode
\* and in replace mode.
C29_NoWriteOnUnreadableStore ==
    (args.caller \in {"api", "main"} /\ pre.structured.kind = "corrupt") =>
        /\ posters_json = pre.structured
        /\ data_posters_json = pre.flat
        /\ written = {}
        /\ pc \notin {"flat", "returned", "validate"}

C29_Witness ==
    /\ args.caller = "api" /\ ~args.merge
    /\ pc = "raised"
    /\ new_posters # << >>
    /\ posters_json = Corrupt
    /\ data_posters_json = Flat(<< StoredCurated >>)
    /\ written = {}

\* C30: an import run that ends with no candidate (no PDF in the directory, or
\* every source skipped) exits with a non-zero code and update_backend is not
\* called: nothing is written and both files are as the run found them, in
\* replace mode as in merge mode.
C30_EmptyBatchWritesNothing ==
    (args.caller = "main" /\ pc \notin {"idle", "process"}
        /\ pdf_files = << >> /\ new_posters = << >>) =>
        /\ pc = "exit"
        /\ exit_code # 0
        /\ written = {}
        /\ posters_json = pre.structured
        /\ data_posters_json = pre.flat

C30_Witness ==
    /\ args.caller = "main" /\ ~args.merge
    /\ ConfigOk(args.use_vision, args.dir_exists, args.ollama_up)
    /\ pc = "exit" /\ exit_code = 1
    /\ args.dir # {} /\ Len(log) = Cardinality(args.dir)
    /\ pdf_files = << >> /\ new_posters = << >>
    /\ posters_json = Structured(1, << StoredCurated, StoredBare >>)
    /\ data_posters_json = Flat(<< StoredCurated, StoredBare >>)

====
